---- MODULE Spec2Model ----
(***************************************************************************)
(* A model of obstacle_env/graphics.py: the SimulationSurface viewport     *)
(* (world-to-pixel conversion, pan/zoom key handling, recentring), the     *)
(* Scene2dGraphics draw pass and the EnvViewer session (window, frame      *)
(* capture into out/tmp, encoding and cleanup on close).                   *)
(*                                                                         *)
(* Python floats are modelled by exact rationals <<n, d>> (d > 0, lowest   *)
(* terms); int() is truncation toward zero, as in Python.                  *)
(***************************************************************************)
EXTENDS Integers, Sequences, FiniteSets, TLC

VARIABLES
    viewer,     \* per session: the EnvViewer object (or not yet constructed)
    env,        \* per session: the environment the viewer renders
    fs,         \* the working directory: out/, out/tmp/ and the files in them
    encoder,    \* the os.system() command lines issued so far, oldest first
    now,        \* the wall clock, in whole seconds (datetime.now() resolution used)
    surface,    \* a stand-alone SimulationSurface, driven through its methods
    call        \* the last method call made on `surface`, with its result

vars == <<viewer, env, fs, encoder, now, surface, call>>

---------------------------------------------------------------------------
(* Bounds of the model *)

MaxZoom == 1        \* net zoom key-presses away from the initial scale
MaxPan == 4         \* net pan key-presses away from the initial centering
MaxSessionPan == 1  \* the same, within a session's handle_events()
MaxFrames == 2      \* frames captured per session
MaxCloses == 2      \* close() calls per session
MaxEvents == 1      \* events drained by one handle_events() call
MaxTime == 1        \* seconds the wall clock advances

(* Program constants *)

SCREEN_WIDTH == 400
SCREEN_HEIGHT == 400
VIDEO_SPEED == 2

---------------------------------------------------------------------------
(* Exact rational arithmetic standing for Python's float arithmetic *)

Abs(n) == IF n < 0 THEN -n ELSE n

RECURSIVE GCD(_, _)
GCD(a, b) == IF b = 0 THEN a ELSE GCD(b, a % b)

Rat(n, d) ==
    LET g == GCD(Abs(n), Abs(d))
        s == IF d < 0 THEN -1 ELSE 1
    IN  <<(s * n) \div g, (s * d) \div g>>

Int2Rat(n) == <<n, 1>>

RAdd(a, b) == Rat(a[1] * b[2] + b[1] * a[2], a[2] * b[2])
RSub(a, b) == Rat(a[1] * b[2] - b[1] * a[2], a[2] * b[2])
RMul(a, b) == Rat(a[1] * b[1], a[2] * b[2])
RDiv(a, b) == Rat(a[1] * b[2], a[2] * b[1])
RLess(a, b) == a[1] * b[2] < b[1] * a[2]

\* floor of a rational (TLA+'s \div rounds toward minus infinity)
RFloor(a) == a[1] \div a[2]

\* (variation: rounding down, as math.floor or // would)
PyInt_floor(a) == a[1] \div a[2]

\* Python's int(float): truncation toward zero
PyInt(a) == IF a[1] >= 0 THEN a[1] \div a[2] ELSE -((-a[1]) \div a[2])

\* nearest integer, a tie going away from zero
RRound(a) ==
    IF a[1] >= 0 THEN (2 * a[1] + a[2]) \div (2 * a[2])
    ELSE -((2 * (-a[1]) + a[2]) \div (2 * a[2]))

\* numpy.round: nearest integer, a tie going to the even neighbour
NpRound(a) ==
    LET f == RFloor(a)
        twice == RSub(RMul(Int2Rat(2), a), Int2Rat(2 * f))  \* 2 * fractional part
    IN  IF RLess(twice, Int2Rat(1)) THEN f
        ELSE IF RLess(Int2Rat(1), twice) THEN f + 1
        ELSE IF f % 2 = 0 THEN f ELSE f + 1

---------------------------------------------------------------------------
(* numpy arrays: a 1-D array of two numbers is one row, a (2,1) array two  *)
(* rows of one number; subtraction broadcasts as numpy does.               *)

Arr1(x, y) == [ndim |-> 1, rows |-> <<<<x, y>>>>]
Col(x, y) == [ndim |-> 2, rows |-> <<<<x>>, <<y>>>>]

Max(a, b) == IF a >= b THEN a ELSE b

NpSub(a, b) ==
    LET nr == Max(Len(a.rows), Len(b.rows))
        nc == Max(Len(a.rows[1]), Len(b.rows[1]))
        At(m, i, j) == m.rows[IF Len(m.rows) = 1 THEN 1 ELSE i]
                             [IF Len(m.rows[1]) = 1 THEN 1 ELSE j]
    IN  [ndim |-> Max(a.ndim, b.ndim),
         rows |-> [i \in 1..nr |-> [j \in 1..nc |-> RSub(At(a, i, j), At(b, i, j))]]]

\* a[i, j] with Python's zero-based indices; a 1-D array has no second index
CanIndex2(a) == a.ndim = 2
Index2(a, i, j) == a.rows[i + 1][j + 1]

---------------------------------------------------------------------------
(* SimulationSurface *)

SCALING_FACTOR == <<13, 10>>
MOVING_FACTOR == <<1, 10>>

SimulationSurface(size) ==
    [width |-> size[1], height |-> size[2],
     origin |-> Arr1(Int2Rat(0), Int2Rat(0)),
     scaling |-> Int2Rat(15),
     centering_position |-> <<1, 2>>]

\* (variation: rounding to the nearest pixel)
pix_nearest(surf, length) == RRound(RMul(length, surf.scaling))

pix(surf, length) == PyInt(RMul(length, surf.scaling))

\* pos2pix indexes origin[0, 0] and origin[1, 0]: an IndexError on a 1-D origin
pos2pix(surf, x, y) ==
    IF CanIndex2(surf.origin)
    THEN [raised |-> "none",
          val |-> <<pix(surf, RSub(x, Index2(surf.origin, 0, 0))),
                    pix(surf, RSub(y, Index2(surf.origin, 1, 0)))>>]
    ELSE [raised |-> "IndexError", val |-> <<>>]

\* (variation: always centring horizontally, centering_position ignored)
move_display_window_centred(surf, position) ==
    [surf EXCEPT !.origin =
        NpSub(position,
              Col(RDiv(Int2Rat(surf.width), RMul(Int2Rat(2), surf.scaling)),
                  RDiv(Int2Rat(surf.height), RMul(Int2Rat(2), surf.scaling))))]

move_display_window_to(surf, position) ==
    [surf EXCEPT !.origin =
        NpSub(position,
              Col(RDiv(RMul(surf.centering_position, Int2Rat(surf.width)), surf.scaling),
                  RDiv(Int2Rat(surf.height), RMul(Int2Rat(2), surf.scaling))))]

\* (variation: the K_m branch a copy of the K_o branch)
handle_event_wrong_attribute(surf, event) ==
    LET key(k) == event.type = "KEYDOWN" /\ event.key = k
        s1 == IF key("K_l")
              THEN [surf EXCEPT !.scaling = RMul(@, RDiv(Int2Rat(1), SCALING_FACTOR))]
              ELSE surf
        s2 == IF key("K_o") THEN [s1 EXCEPT !.scaling = RMul(@, SCALING_FACTOR)] ELSE s1
        s3 == IF key("K_m") THEN [s2 EXCEPT !.scaling = RMul(@, SCALING_FACTOR)] ELSE s2
        s4 == IF key("K_k")
              THEN [s3 EXCEPT !.centering_position = RAdd(@, MOVING_FACTOR)]
              ELSE s3
    IN  s4

handle_event(surf, event) ==
    LET key(k) == event.type = "KEYDOWN" /\ event.key = k
        s1 == IF key("K_l")
              THEN [surf EXCEPT !.scaling = RMul(@, RDiv(Int2Rat(1), SCALING_FACTOR))]
              ELSE surf
        s2 == IF key("K_o") THEN [s1 EXCEPT !.scaling = RMul(@, SCALING_FACTOR)] ELSE s1
        s3 == IF key("K_m")
              THEN [s2 EXCEPT !.centering_position = RSub(@, MOVING_FACTOR)]
              ELSE s2
        s4 == IF key("K_k")
              THEN [s3 EXCEPT !.centering_position = RAdd(@, MOVING_FACTOR)]
              ELSE s3
    IN  s4

---------------------------------------------------------------------------
(* The environment a viewer renders: env.dynamics (the agent, or None),    *)
(* env.scene.obstacles and env.SIMULATION_FREQUENCY.                       *)

NoDynamics == [isNone |-> TRUE, position |-> Arr1(Int2Rat(0), Int2Rat(0))]
Dynamics(x, y) == [isNone |-> FALSE, position |-> Col(x, y)]

Obstacle(x, y, r) == [position |-> Col(x, y), radius |-> r]

TwoObstacles ==
    <<Obstacle(Int2Rat(5), Int2Rat(5), Int2Rat(1)),
      Obstacle(<<-27, 2>>, <<-77, 6>>, <<1, 2>>)>>

Env(dynamics, obstacles, frequency) ==
    [dynamics |-> dynamics, obstacles |-> obstacles, SIMULATION_FREQUENCY |-> frequency]

EnvChoices ==
    {Env(NoDynamics, <<>>, 15),
     Env(NoDynamics, TwoObstacles, 100),
     Env(Dynamics(Int2Rat(0), Int2Rat(0)), <<>>, 15),
     Env(Dynamics(<<3, 2>>, Int2Rat(-2)), TwoObstacles, 100)}

DefaultEnv == Env(Dynamics(Int2Rat(0), Int2Rat(0)), <<>>, 15)

---------------------------------------------------------------------------
(* Scene2dGraphics: the draw calls made on the surface, in order.  Colours *)
(* are the class constants' names.  A step that raises keeps the calls     *)
(* made before it.                                                         *)

Circle(pos, radius, width) ==
    [op |-> "circle", color |-> "GREY", at |-> pos, radius |-> radius, width |-> width]

RECURSIVE DrawObstacles(_, _, _)
DrawObstacles(obstacles, surf, done) ==
    IF obstacles = <<>> THEN [raised |-> "none", calls |-> done]
    ELSE LET ob == Head(obstacles)
             position == pos2pix(surf, Index2(ob.position, 0, 0), Index2(ob.position, 1, 0))
         IN  IF position.raised # "none"
             THEN [raised |-> position.raised, calls |-> done]
             ELSE DrawObstacles(Tail(obstacles), surf,
                                Append(done, Circle(position.val, pix(surf, ob.radius), 0)))

Scene2dGraphics_display(obstacles, surf) ==
    DrawObstacles(obstacles, surf,
                  <<[op |-> "rect", color |-> "WHITE", at |-> <<0, 0>>,
                     radius |-> <<surf.width, surf.height>>, width |-> 0]>>)

\* dynamics.position is read unconditionally: None has no attribute `position`
Scene2dGraphics_display_dynamics(dynamics, surf) ==
    IF dynamics.isNone THEN [raised |-> "AttributeError", calls |-> <<>>]
    ELSE LET position == pos2pix(surf, Index2(dynamics.position, 0, 0),
                                 Index2(dynamics.position, 1, 0))
         IN  IF position.raised # "none"
             THEN [raised |-> position.raised, calls |-> <<>>]
             ELSE [raised |-> "none",
                   calls |-> <<Circle(position.val, pix(surf, <<1, 5>>), 1)>>]

---------------------------------------------------------------------------
(* The working directory.  OUT_FOLDER is out/, TMP_FOLDER out/tmp/: class  *)
(* constants, the same for every EnvViewer.  A frame file                  *)
(* "{TMP_FOLDER}/{video_name}_{frame:04d}.bmp" is [name, idx, by]: the     *)
(* video name, the formatted index and the session whose screen it holds.  *)

RECURSIVE Digits(_)
Digits(n) == IF n < 10 THEN <<n>> ELSE Append(Digits(n \div 10), n % 10)

RECURSIVE ZeroPad(_, _)
ZeroPad(ds, w) == IF Len(ds) >= w THEN ds ELSE ZeroPad(<<0>> \o ds, w)

\* "{:04d}".format(n), as the sequence of its digits
Format04d(n) == ZeroPad(Digits(n), 4)

\* outputs: the encoded files "{OUT_FOLDER}/{video_name}.avi" and ".gif"
FreshDir == [out |-> FALSE, tmp |-> FALSE, files |-> {}, outputs |-> {}]

\* what an earlier, interrupted run leaves behind
StaleDir ==
    [out |-> TRUE, tmp |-> TRUE,
     files |-> {[name |-> -1, idx |-> Format04d(1), by |-> 0]}, outputs |-> {}]

clear_video_dir(f) ==
    IF f.tmp THEN [f EXCEPT !.tmp = FALSE, !.files = {}] ELSE f

make_video_dir(f) ==
    LET f1 == IF ~f.out THEN [f EXCEPT !.out = TRUE] ELSE f
        f2 == clear_video_dir(f1)
    IN  [f2 EXCEPT !.tmp = TRUE]

\* pygame.image.save to a path: replaces a file of the same name
SaveImage(f, name, frame, by) ==
    LET idx == Format04d(frame)
    IN  [f EXCEPT !.files =
            {g \in @ : ~(g.name = name /\ g.idx = idx)}
            \cup {[name |-> name, idx |-> idx, by |-> by]}]

\* the frame files a command's pattern "{TMP_FOLDER}/{video_name}..." names
Matching(f, name) == {g \in f.files : g.name = name}

---------------------------------------------------------------------------
(* EnvViewer.  Besides the object's attributes a viewer record keeps what  *)
(* its last display() call did (steps, raised, the surface, screen and     *)
(* presented contents) and how many display() and close() calls were made. *)

Sessions == {1, 2}

Unconstructed ==
    [exists |-> FALSE, record_video |-> FALSE, frame |-> 0, video_name |-> 0,
     pygame |-> "none",
     sim_surface |-> SimulationSurface(<<SCREEN_WIDTH, SCREEN_HEIGHT>>),
     canvas |-> <<>>, screen |-> <<>>, shown |-> <<>>,
     steps |-> <<>>, raised |-> "none", displays |-> 0, closes |-> 0]

\* __init__: the viewer and the directory after construction at time t
EnvViewer_init(f, record_video, t) ==
    [v |-> [Unconstructed EXCEPT !.exists = TRUE, !.record_video = record_video,
                                 !.pygame = "init", !.frame = 0,
                                 !.video_name = IF record_video THEN t ELSE 0],
     fs |-> IF record_video THEN make_video_dir(f) ELSE f]

window_position(e) ==
    IF ~e.dynamics.isNone THEN e.dynamics.position
    ELSE Arr1(Int2Rat(0), Int2Rat(0))

\* display(), statement by statement; r is [v, fs]; a raised exception ends
\* the call: no later statement runs
Raised(r) == r.v.raised # "none"

Did(v, step) == [v EXCEPT !.steps = Append(@, step)]

StepRecenter(r, e) ==
    [r EXCEPT !.v = Did([@ EXCEPT !.sim_surface =
                            move_display_window_to(@, window_position(e))],
                        "recenter")]

StepScene(r, e) ==
    LET d == Scene2dGraphics_display(e.obstacles, r.v.sim_surface)
    IN  IF Raised(r) THEN r ELSE
        [r EXCEPT !.v = IF d.raised # "none"
                        THEN [@ EXCEPT !.canvas = d.calls, !.raised = d.raised]
                        ELSE Did([@ EXCEPT !.canvas = d.calls], "scene")]

StepDynamics(r, e) ==
    LET d == Scene2dGraphics_display_dynamics(e.dynamics, r.v.sim_surface)
    IN  IF Raised(r) THEN r ELSE
        [r EXCEPT !.v = IF d.raised # "none"
                        THEN [@ EXCEPT !.raised = d.raised]
                        ELSE Did([@ EXCEPT !.canvas = @ \o d.calls], "agent")]

\* the display surface is gone after pygame.quit(): blit raises pygame.error
StepBlit(r) ==
    IF Raised(r) THEN r ELSE
    [r EXCEPT !.v = IF r.v.pygame # "init"
                    THEN [r.v EXCEPT !.raised = "pygame.error"]
                    ELSE Did([r.v EXCEPT !.screen = r.v.canvas], "blit")]

StepTick(r) == IF Raised(r) THEN r ELSE [r EXCEPT !.v = Did(@, "tick")]

StepFlip(r) ==
    IF Raised(r) THEN r
    ELSE [r EXCEPT !.v = Did([r.v EXCEPT !.shown = r.v.screen], "flip")]

\* frame += 1, then image.save, which fails when out/tmp/ is not there
StepRecord(r, s) ==
    IF Raised(r) \/ ~r.v.record_video THEN r
    ELSE LET v1 == Did([r.v EXCEPT !.frame = @ + 1], "frame")
         IN  IF ~r.fs.tmp
             THEN [r EXCEPT !.v = [v1 EXCEPT !.raised = "pygame.error"]]
             ELSE [v |-> Did(v1, "save"),
                   fs |-> SaveImage(r.fs, v1.video_name, v1.frame, s)]

\* (variation: flip before tick, the frame presented before the pacing wait)
display_present_first(v, e, f, s) ==
    LET r0 == [v |-> [v EXCEPT !.steps = <<>>, !.raised = "none",
                               !.displays = @ + 1],
               fs |-> f]
        r1 == StepRecenter(r0, e)
        r2 == StepScene(r1, e)
        r3 == StepDynamics(r2, e)
        r4 == StepBlit(r3)
        r5 == StepFlip(r4)
        r6 == StepTick(r5)
    IN  StepRecord(r6, s)

display(v, e, f, s) ==
    LET r0 == [v |-> [v EXCEPT !.steps = <<>>, !.raised = "none",
                               !.displays = @ + 1],
               fs |-> f]
        r1 == StepRecenter(r0, e)
        r2 == StepScene(r1, e)
        r3 == StepDynamics(r2, e)
        r4 == StepBlit(r3)
        r5 == StepTick(r4)
        r6 == StepFlip(r5)
    IN  StepRecord(r6, s)

\* close(); ok says whether the external encoding succeeds (os.system's exit
\* status is not looked at); r is [v, fs, enc]
close(r, e, s, ok) ==
    LET v1 == [r.v EXCEPT !.pygame = "quit", !.closes = @ + 1]
        rate == VIDEO_SPEED * e.SIMULATION_FREQUENCY
        delay == NpRound(Rat(100, VIDEO_SPEED * e.SIMULATION_FREQUENCY))
        inputs == Matching(r.fs, v1.video_name)
    IN  IF ~v1.record_video THEN [r EXCEPT !.v = v1]
        ELSE [v |-> v1,
              fs |-> clear_video_dir(
                        [r.fs EXCEPT !.outputs =
                            IF ok /\ inputs # {}
                            THEN @ \cup {<<v1.video_name, "avi">>, <<v1.video_name, "gif">>}
                            ELSE @]),
              enc |-> r.enc \o
                  <<[by |-> s, tool |-> "ffmpeg", arg |-> rate,
                     name |-> v1.video_name, inputs |-> inputs],
                    [by |-> s, tool |-> "convert", arg |-> delay,
                     name |-> v1.video_name, inputs |-> inputs]>>]

\* env.close(), the callback of the owning environment: it closes its viewer
env_close(r, e, s, ok) == close(r, e, s, ok)

Events ==
    {[type |-> "QUIT", key |-> "none"], [type |-> "MOUSEMOTION", key |-> "none"]}
    \cup {[type |-> "KEYDOWN", key |-> k] : k \in {"K_l", "K_o", "K_m", "K_k", "K_q"}}

\* handle_events(): the loop over the events pygame.event.get() returned
RECURSIVE handle_events(_, _, _, _, _)
handle_events(r, e, s, events, ok) ==
    IF events = <<>> THEN r
    ELSE LET event == Head(events)
             r1 == IF event.type = "QUIT" THEN env_close(r, e, s, ok) ELSE r
             r2 == [r1 EXCEPT !.v.sim_surface = handle_event(@, event)]
         IN  handle_events(r2, e, s, Tail(events), ok)

---------------------------------------------------------------------------
(* The bounded part of the viewport's state space *)

RECURSIVE RPow(_, _)
RPow(a, k) ==
    IF k = 0 THEN Int2Rat(1)
    ELSE IF k > 0 THEN RMul(a, RPow(a, k - 1))
    ELSE RDiv(RPow(a, k + 1), a)

ScaleRange == {RMul(Int2Rat(15), RPow(SCALING_FACTOR, k)) : k \in -MaxZoom..MaxZoom}
CenterRange(pan) == {RAdd(<<1, 2>>, RMul(Int2Rat(j), MOVING_FACTOR)) : j \in -pan..pan}

InBounds(surf, pan) ==
    surf.scaling \in ScaleRange /\ surf.centering_position \in CenterRange(pan)

EventSeqs == UNION {[1..n -> Events] : n \in 1..MaxEvents}

---------------------------------------------------------------------------
(* The sessions' operations *)

Construct(s, record_video) ==
    /\ ~viewer[s].exists
    /\ LET r == EnvViewer_init(fs, record_video, now)
       IN  /\ viewer' = [viewer EXCEPT ![s] = r.v]
           /\ fs' = r.fs
    /\ UNCHANGED <<env, encoder, now, surface, call>>

\* pygame.event.get() raises once pygame has quit: the call changes nothing then
HandleEvents(s) ==
    /\ viewer[s].exists
    /\ viewer[s].pygame = "init"
    /\ \E events \in EventSeqs :
       \E ok \in (IF \E i \in DOMAIN events : events[i].type = "QUIT"
                  THEN BOOLEAN ELSE {TRUE}) :
          LET r == handle_events([v |-> viewer[s], fs |-> fs, enc |-> encoder],
                                 env[s], s, events, ok)
          IN  /\ InBounds(r.v.sim_surface, MaxSessionPan)
              /\ r.v.closes <= MaxCloses
              /\ viewer' = [viewer EXCEPT ![s] = r.v]
              /\ fs' = r.fs
              /\ encoder' = r.enc
    /\ UNCHANGED <<env, now, surface, call>>

Display(s) ==
    /\ viewer[s].exists
    /\ viewer[s].displays < MaxFrames
    /\ LET r == display(viewer[s], env[s], fs, s)
       IN  /\ viewer' = [viewer EXCEPT ![s] = r.v]
           /\ fs' = r.fs
    /\ UNCHANGED <<env, encoder, now, surface, call>>

Close(s) ==
    /\ viewer[s].exists
    /\ viewer[s].closes < MaxCloses
    /\ \E ok \in BOOLEAN :
          LET r == close([v |-> viewer[s], fs |-> fs, enc |-> encoder], env[s], s, ok)
          IN  /\ viewer' = [viewer EXCEPT ![s] = r.v]
              /\ fs' = r.fs
              /\ encoder' = r.enc
    /\ UNCHANGED <<env, now, surface, call>>

Tick ==
    /\ now < MaxTime
    /\ now' = now + 1
    /\ UNCHANGED <<viewer, env, fs, encoder, surface, call>>

---------------------------------------------------------------------------
(* Calls on a stand-alone SimulationSurface *)

NoCall ==
    [op |-> "none", arg |-> <<>>,
     before |-> SimulationSurface(<<SCREEN_WIDTH, SCREEN_HEIGHT>>), out |-> <<>>]

Lengths == {<<-3, 2>>, <<-1, 2>>, Int2Rat(0), <<1, 5>>, <<1, 2>>, Int2Rat(1)}

Points ==
    {<<Int2Rat(0), Int2Rat(0)>>, <<Int2Rat(5), Int2Rat(5)>>,
     <<<<1, 30>>, <<-27, 2>>>>, <<<<-27, 2>>, <<1, 30>>>>}

WindowPositions == {window_position(e) : e \in EnvChoices}

PixCall ==
    /\ \E length \in Lengths :
          call' = [op |-> "pix", arg |-> length, before |-> surface,
                   out |-> pix(surface, length)]
    /\ UNCHANGED <<viewer, env, fs, encoder, now, surface>>

Pos2PixCall ==
    /\ \E point \in Points :
          call' = [op |-> "pos2pix", arg |-> point, before |-> surface,
                   out |-> pos2pix(surface, point[1], point[2])]
    /\ UNCHANGED <<viewer, env, fs, encoder, now, surface>>

MoveCall ==
    /\ \E position \in WindowPositions :
          /\ surface' = move_display_window_to(surface, position)
          /\ call' = [op |-> "move_display_window_to", arg |-> position,
                      before |-> surface, out |-> <<>>]
    /\ UNCHANGED <<viewer, env, fs, encoder, now>>

EventCall ==
    /\ \E event \in Events :
          /\ InBounds(handle_event(surface, event), MaxPan)
          /\ surface' = handle_event(surface, event)
          /\ call' = [op |-> "handle_event", arg |-> event,
                      before |-> surface, out |-> <<>>]
    /\ UNCHANGED <<viewer, env, fs, encoder, now>>

---------------------------------------------------------------------------
(* Specifications *)

InitViewers ==
    /\ viewer = [s \in Sessions |-> Unconstructed]
    /\ encoder = <<>>
    /\ now = 0

InitSurface ==
    /\ surface = SimulationSurface(<<SCREEN_WIDTH, SCREEN_HEIGHT>>)
    /\ call = NoCall

\* one session, in any environment
Init ==
    /\ InitViewers
    /\ InitSurface
    /\ env \in {f \in [Sessions -> EnvChoices] : f[2] = DefaultEnv}
    /\ fs \in {FreshDir, StaleDir}

Next ==
    \/ \E record_video \in BOOLEAN : Construct(1, record_video)
    \/ Display(1)
    \/ Close(1)
    \/ HandleEvents(1)

Spec == Init /\ [][Next]_vars

\* two sessions of two processes started in the same working directory
InitTwo ==
    /\ InitViewers
    /\ InitSurface
    /\ env = [s \in Sessions |-> DefaultEnv]
    /\ fs = FreshDir

NextTwo ==
    \/ \E s \in Sessions : Construct(s, TRUE)
    \/ \E s \in Sessions : Display(s)
    \/ \E s \in Sessions : Close(s)
    \/ Tick

SpecTwo == InitTwo /\ [][NextTwo]_vars

\* the viewport alone
InitView ==
    /\ InitViewers
    /\ InitSurface
    /\ env = [s \in Sessions |-> DefaultEnv]
    /\ fs = FreshDir

NextView ==
    \/ PixCall
    \/ Pos2PixCall
    \/ MoveCall
    \/ EventCall

SpecView == InitView /\ [][NextView]_vars

---------------------------------------------------------------------------
(* Properties of the viewport, under SpecView *)

RLeq(a, b) == ~RLess(b, a)
Zero == Int2Rat(0)

\* (coordinate - origin) * scale on axis i (0 = x, 1 = y), before conversion
ScaledOffset(surf, coord, i) ==
    RMul(RSub(coord, Index2(surf.origin, i, 0)), surf.scaling)

\* n is q with its fractional part dropped
IsTruncation(n, q) ==
    /\ RLeq(Zero, q) => RLeq(Int2Rat(n), q) /\ RLess(q, Int2Rat(n + 1))
    /\ RLeq(q, Zero) => RLess(Int2Rat(n - 1), q) /\ RLeq(q, Int2Rat(n))

Recentred == call.op = "pos2pix" /\ CanIndex2(call.before.origin)

C3_Floors ==
    call.op = "pix" => call.out = RFloor(RMul(call.arg, call.before.scaling))

\* C3: pix(L) is L * S truncated toward zero: floor(L * S) for L >= 0 and
\* ceil(L * S) for L < 0
C3_Truncates ==
    call.op = "pix" =>
        LET q == RMul(call.arg, call.before.scaling)
        IN  /\ RLess(Zero, call.before.scaling)
            /\ RLeq(Zero, call.arg) => call.out = RFloor(q)
            /\ RLess(call.arg, Zero) => call.out = -RFloor(RSub(Zero, q))

\* pix of a negative length whose product with the scale is not whole
C3_Witness ==
    /\ call.op = "pix"
    /\ RLess(call.arg, Zero)
    /\ call.out = RFloor(RMul(call.arg, call.before.scaling)) + 1

\* the world point an array passed as a position stands for
ArgPoint(a) ==
    IF a.ndim = 1 THEN <<a.rows[1][1], a.rows[1][2]>> ELSE <<a.rows[1][1], a.rows[2][1]>>

\* C4: after move_display_window_to(P) the origin read by pos2pix is
\* (P.x - c*W/S, P.y - H/(2*S)); the pixel of P has 0 <= x < W when
\* 0 < c < 1; with W = H = 400, S = 15, c = 0.5, P = (0,0) it is (200, 200).
\* P is the agent's position (a (2,1) array) or the default 1-D [0, 0].
C4_Recenter ==
    call.op = "move_display_window_to" =>
        LET P == ArgPoint(call.arg)
            c == call.before.centering_position
            S == call.before.scaling
            W == call.before.width
            H == call.before.height
            p == pos2pix(surface, P[1], P[2])
        IN  /\ CanIndex2(surface.origin)
            /\ Index2(surface.origin, 0, 0) = RSub(P[1], RDiv(RMul(c, Int2Rat(W)), S))
            /\ Index2(surface.origin, 1, 0) = RSub(P[2], RDiv(Int2Rat(H), RMul(Int2Rat(2), S)))
            /\ p.raised = "none"
            /\ (RLess(Zero, c) /\ RLess(c, Int2Rat(1))) => (0 <= p.val[1] /\ p.val[1] < W)
            /\ (W = 400 /\ H = 400 /\ S = Int2Rat(15) /\ c = <<1, 2>> /\ P = <<Zero, Zero>>)
                  => p.val = <<200, 200>>

\* recentring on the default position with no agent, scale 15, centering 0.5
C4_Witness ==
    /\ call.op = "move_display_window_to"
    /\ call.arg = window_position(Env(NoDynamics, <<>>, 15))
    /\ call.before.scaling = Int2Rat(15)
    /\ call.before.centering_position = <<1, 2>>
    /\ pos2pix(surface, Zero, Zero).val = <<200, 200>>

\* recentring on an agent away from the world origin, off-centre
C4_WitnessAgent ==
    /\ call.op = "move_display_window_to"
    /\ call.arg.ndim = 2
    /\ ArgPoint(call.arg) # <<Zero, Zero>>
    /\ call.before.centering_position # <<1, 2>>

IsKey(event, keys) == event.type = "KEYDOWN" /\ event.key \in keys

\* C10: a zoom key changes only the scale (by the factor 1.3 or its
\* reciprocal), a pan key only the centering fraction (by 0.1 either way),
\* recentring only the origin, any other event nothing; pix and pos2pix
\* change nothing; and the scale is strictly positive throughout
C10_Frame ==
    LET b == call.before
        a == surface
    IN  /\ RLess(Zero, a.scaling)
        /\ a.width = b.width /\ a.height = b.height
        /\ call.op \in {"pix", "pos2pix"} => a = b
        /\ call.op = "move_display_window_to" =>
              a.scaling = b.scaling /\ a.centering_position = b.centering_position
        /\ call.op = "handle_event" =>
              /\ a.origin = b.origin
              /\ IsKey(call.arg, {"K_l", "K_o"}) =>
                    /\ a.centering_position = b.centering_position
                    /\ a.scaling \in {RMul(b.scaling, SCALING_FACTOR),
                                      RDiv(b.scaling, SCALING_FACTOR)}
              /\ IsKey(call.arg, {"K_m", "K_k"}) =>
                    /\ a.scaling = b.scaling
                    /\ a.centering_position \in
                          {RAdd(b.centering_position, MOVING_FACTOR),
                           RSub(b.centering_position, MOVING_FACTOR)}
              /\ ~IsKey(call.arg, {"K_l", "K_o", "K_m", "K_k"}) =>
                    /\ a.scaling = b.scaling
                    /\ a.centering_position = b.centering_position

\* a zoom-out key-press handled on a surface that had been panned and recentred
C10_Witness ==
    /\ call.op = "handle_event"
    /\ IsKey(call.arg, {"K_l"})
    /\ RLess(surface.scaling, call.before.scaling)
    /\ surface.centering_position # <<1, 2>>
    /\ CanIndex2(surface.origin)

---------------------------------------------------------------------------
(* Properties of a session, under Spec (one session) and SpecTwo (two) *)

IsPrefix(a, b) == Len(a) <= Len(b) /\ \A i \in DOMAIN a : a[i] = b[i]
Has(seq, x) == \E i \in DOMAIN seq : seq[i] = x

RECURSIVE FromDigits(_)
FromDigits(ds) ==
    IF ds = <<>> THEN 0 ELSE 10 * FromDigits(SubSeq(ds, 1, Len(ds) - 1)) + ds[Len(ds)]

Capturing(s) == viewer[s].exists /\ viewer[s].record_video

\* the frame files of session s's video in out/tmp/ are exactly those of
\* frames 1..n, four digits each, holding s's screen
OwnFrames(s, n) ==
    LET mine == Matching(fs, viewer[s].video_name)
    IN  /\ Cardinality(mine) = n
        /\ {FromDigits(g.idx) : g \in mine} = 1..n
        /\ \A g \in mine : Len(g.idx) = 4 /\ g.by = s

\* C1 as stated: a capturing session that made N display() calls and no
\* close() has exactly N frame files in out/tmp/, indexed 0001..000N; after
\* close() out/tmp/ holds no file
C1_FrameFiles ==
    \A s \in Sessions : Capturing(s) =>
        IF viewer[s].closes = 0
        THEN /\ fs.tmp
             /\ fs.files = Matching(fs, viewer[s].video_name)
             /\ OwnFrames(s, viewer[s].displays)
        ELSE fs.files = {}

\* the same, for environments that have an agent (holds under Spec)
C1_FrameFilesWithAgent ==
    \A s \in Sessions : (Capturing(s) /\ ~env[s].dynamics.isNone) =>
        IF viewer[s].closes = 0
        THEN /\ fs.tmp
             /\ fs.files = Matching(fs, viewer[s].video_name)
             /\ OwnFrames(s, viewer[s].displays)
        ELSE fs.files = {}

\* C5 as stated: with no agent a display() call of a running session
\* raises nothing, draws no agent circle and completes: scene drawn, frame
\* blitted and presented and, if capturing, persisted
C5_SkipsAgent ==
    \A s \in Sessions :
        (viewer[s].exists /\ viewer[s].pygame = "init" /\ viewer[s].displays > 0
            /\ env[s].dynamics.isNone) =>
            /\ viewer[s].raised = "none"
            /\ ~Has(viewer[s].steps, "agent")
            /\ \A c \in DOMAIN viewer[s].canvas : viewer[s].canvas[c].width # 1
            /\ Has(viewer[s].steps, "scene")
            /\ Has(viewer[s].steps, "blit")
            /\ Has(viewer[s].steps, "flip")
            /\ viewer[s].record_video => Has(viewer[s].steps, "save")

CaptureSteps(s) == IF viewer[s].record_video THEN <<"frame", "save">> ELSE <<>>

\* C6 as stated: the steps of a display() call come in the order recenter,
\* scene, agent, blit, present (flip), pacing wait (tick), then capture
C6_PresentBeforeWait ==
    \A s \in Sessions :
        IsPrefix(viewer[s].steps,
                 <<"recenter", "scene", "agent", "blit", "flip", "tick">> \o CaptureSteps(s))

\* C6: the steps of a display() call come in the order recenter, scene,
\* agent, blit, pacing wait (tick), present (flip), then, if capturing,
\* frame increment and save; a call that raises stops part-way through
\* that order, one that does not runs through all of it
C6_SourceOrder ==
    \A s \in Sessions :
        LET order == <<"recenter", "scene", "agent", "blit", "tick", "flip">>
                        \o CaptureSteps(s)
        IN  /\ IsPrefix(viewer[s].steps, order)
            /\ (viewer[s].displays > 0 /\ viewer[s].raised = "none")
                  => viewer[s].steps = order

\* a capturing session's display() ran to the end: presented, then saved
C6_Witness ==
    \E s \in Sessions :
        /\ Capturing(s)
        /\ viewer[s].raised = "none"
        /\ Has(viewer[s].steps, "flip")
        /\ Has(viewer[s].steps, "save")

\* C7 as stated: the video's -r argument is VIDEO_SPEED * SIMULATION_FREQUENCY
\* and the animation's -delay, in hundredths of a second, is non-zero and
\* gives exactly that rate (delay * rate = 100)
C7_PlaybackRate ==
    \A i \in DOMAIN encoder :
        LET rate == VIDEO_SPEED * env[encoder[i].by].SIMULATION_FREQUENCY
        IN  /\ encoder[i].tool = "ffmpeg" => encoder[i].arg = rate
            /\ encoder[i].tool = "convert" =>
                  encoder[i].arg > 0 /\ encoder[i].arg * rate = 100

EncodeRuns(s) ==
    Cardinality({i \in DOMAIN encoder : encoder[i].by = s /\ encoder[i].tool = "ffmpeg"})

\* C9 as stated: Closed is final: the encoding and cleanup step runs at
\* most once per session, and a display() call made after close() neither
\* increments the frame counter nor saves a frame
C9_ClosedIsFinal ==
    \A s \in Sessions :
        /\ EncodeRuns(s) <= 1
        /\ (viewer[s].pygame = "quit" /\ viewer[s].raised = "pygame.error") =>
              ~Has(viewer[s].steps, "frame") /\ ~Has(viewer[s].steps, "save")

\* C8 as stated: with two capturing sessions the video names differ, the
\* frame files of a session not yet closed are exactly the frames it saved,
\* and every encoder command reads frames of its own session only
C8_SessionPrivate ==
    /\ \A s \in Sessions, t \in Sessions :
          (s # t /\ Capturing(s) /\ Capturing(t)) =>
              viewer[s].video_name # viewer[t].video_name
    /\ \A s \in Sessions :
          (Capturing(s) /\ viewer[s].closes = 0) => OwnFrames(s, viewer[s].displays)
    /\ \A i \in DOMAIN encoder : \A g \in encoder[i].inputs : g.by = encoder[i].by

====
